---- MODULE Spec2Model ----
(***************************************************************************)
(* A model of the dnf "emerge" plugin (src/emerge.py): the command's run   *)
(* pipeline (resolve, group, choose work directory, build in threads,      *)
(* find artifacts, install, clean up) and its pure helpers (grouping, the  *)
(* artifact-name matcher, the mock-config rewriting).                      *)
(*                                                                         *)
(* Strings that the code inspects character by character (file names,     *)
(* binary package names) are sequences of one-character strings.           *)
(***************************************************************************)
EXTENDS Integers, Sequences, FiniteSets, TLC

\* ------------------------------------------------------------------ bounds
\* Number of distinct source packages in the repository the resolver queries.
NSources == 2
\* Longest list the resolver returns for one request.
MaxPkgs == 2

\* ------------------------------------------------------------- characters
Letter == <<"a", "b", "c", "d">>
Digits == {"0", "1", "2", "3", "4", "5", "6", "7", "8", "9"}
Dash == "-"
DotRpm == <<".", "r", "p", "m">>
DotSrcRpm == <<".", "s", "r", "c", ".", "r", "p", "m">>

\* str.isdigit() on one character
IsDigit(c) == c \in Digits

\* str.endswith
EndsWith(s, suf) ==
    /\ Len(s) >= Len(suf)
    /\ SubSeq(s, Len(s) - Len(suf) + 1, Len(s)) = suf

\* str.startswith
StartsWith(s, pre) ==
    /\ Len(s) >= Len(pre)
    /\ SubSeq(s, 1, Len(pre)) = pre

\* str.split(sep) for a one-character separator: always at least one segment,
\* empty segments are kept.
RECURSIVE SplitFrom(_, _, _)
SplitFrom(s, sep, cur) ==
    IF s = <<>> THEN <<cur>>
    ELSE IF Head(s) = sep THEN <<cur>> \o SplitFrom(Tail(s), sep, <<>>)
    ELSE SplitFrom(Tail(s), sep, Append(cur, Head(s)))

Split(s, sep) == SplitFrom(s, sep, <<>>)

\* All orders in which a finite set can be iterated.
Orderings(S) ==
    {q \in [1..Cardinality(S) -> S] : \A i, j \in 1..Cardinality(S) : q[i] = q[j] => i = j}

\* ---------------------------------------------------------------- matcher
\* One iteration of the loop body of _is_wanted_file for one needle:
\* "continue", "True" (return True) or "IndexError" (rest[0][0] of an empty
\* first segment).
NeedleOutcome(fname, needle) ==
    IF EndsWith(fname, DotSrcRpm) THEN "continue"
    ELSE IF ~StartsWith(fname, Append(needle, Dash)) THEN "continue"
    ELSE LET rest == Split(SubSeq(fname, Len(needle) + 2, Len(fname)), Dash)
         IN  IF Len(rest) > 2 THEN "continue"
             ELSE IF rest[1] = <<>> THEN "IndexError"
             ELSE IF ~IsDigit(rest[1][1]) THEN "continue"
             ELSE "True"

\* _is_wanted_file(fname, haystack), the haystack iterated in the order given:
\* "True", "False" or "IndexError".
RECURSIVE IsWantedFile(_, _)
IsWantedFile(fname, haystack) ==
    IF haystack = <<>> THEN "False"
    ELSE LET o == NeedleOutcome(fname, Head(haystack))
         IN  IF o = "continue" THEN IsWantedFile(fname, Tail(haystack)) ELSE o

\* ---------------------------------------------------------------- grouping
EmptyDict == [keys |-> <<>>, sets |-> <<>>]

\* Mutant: the loop body assigns set([pkg.name]) whether or not the key exists.
GroupStep_Overwrite(d, pkg) ==
    IF \E i \in 1..Len(d.keys) : d.keys[i] = pkg.source_name
    THEN LET i == CHOOSE i \in 1..Len(d.keys) : d.keys[i] = pkg.source_name
         IN  [d EXCEPT !.sets[i] = {pkg.name}]
    ELSE [keys |-> Append(d.keys, pkg.source_name),
          sets |-> Append(d.sets, {pkg.name})]

\* The body of the loop of _run that fills to_build_install: a dict is its
\* keys in insertion order and the set each key maps to.
GroupStep(d, pkg) ==
    IF \E i \in 1..Len(d.keys) : d.keys[i] = pkg.source_name
    THEN LET i == CHOOSE i \in 1..Len(d.keys) : d.keys[i] = pkg.source_name
         IN  [d EXCEPT !.sets[i] = @ \cup {pkg.name}]
    ELSE [keys |-> Append(d.keys, pkg.source_name),
          sets |-> Append(d.sets, {pkg.name})]

RECURSIVE GroupLoop(_, _)
GroupLoop(ps, d) ==
    IF ps = <<>> THEN d ELSE GroupLoop(Tail(ps), GroupStep(d, Head(ps)))

\* The dict as a mapping, insertion order forgotten (dict equality).
DictMap(d) == {<<d.keys[i], d.sets[i]>> : i \in 1..Len(d.keys)}

DictKeys(d) == {d.keys[i] : i \in 1..Len(d.keys)}

DictGet(d, k) == d.sets[CHOOSE i \in 1..Len(d.keys) : d.keys[i] = k]


\* ------------------------------------------------- repository and file system
Sources == {Letter[i] : i \in 1..NSources}

\* The version-release part of a built file name, "-1-1".
VerRel == <<Dash, "1", Dash, "1">>

\* What the resolver knows: each source package builds a main binary package
\* named like the source and one sub-package "<source>-x".
Repo ==
    {[name |-> <<s>>, source_name |-> s] : s \in Sources}
        \cup {[name |-> <<s, Dash, "x">>, source_name |-> s] : s \in Sources}

\* The lists the resolver can return: no package, or up to MaxPkgs of them in
\* any order (the same name and source can come back for several architectures).
ResolverResults == UNION {[1..n -> Repo] : n \in 0..MaxPkgs}

\* Mutant: every thread writes the same config file, emerge-.cfg.
MockConfig_SharedName(s) == <<"cfg", "">>

\* Entries of the work directory.  The work directory itself is <<"root">>.
RootDir == <<"root">>
MockConfigDir == <<"_mockconfig">>
MockRootsDir == <<"_mockroots">>
PkgDir(s) == <<"src", s>>
MockConfig(s) == <<"cfg", s>>
ResultFile(s, fname) == <<"rpm", s, fname>>

\* The files a successful mockbuild of s leaves under results_<s>/*/*/.
BuiltFiles(s) ==
    {ResultFile(s, <<s>> \o VerRel \o DotRpm),
     ResultFile(s, <<s, Dash, "x">> \o VerRel \o DotRpm),
     ResultFile(s, <<s>> \o VerRel \o DotSrcRpm)}

\* What an earlier, complete run leaves in a caller-supplied work directory.
PreviousRun ==
    {RootDir, MockConfigDir, MockRootsDir}
        \cup {PkgDir(s) : s \in Sources} \cup {MockConfig(s) : s \in Sources}
        \cup UNION {BuiltFiles(s) : s \in Sources}

\* A caller-supplied work directory may not exist yet, be empty, or be reused.
CallerDirs == {{}, {RootDir}, PreviousRun}

\* glob(<workdir>/<source>/results_<source>/*/*/*.rpm)
Glob(f, source) ==
    {e \in f : Len(e) = 3 /\ e[1] = "rpm" /\ e[2] = source /\ EndsWith(e[3], DotRpm)}

\* ------------------------------------------------------------------- state
VARIABLES
    opts,             \* the parsed command line: workdir given, skip_build, skip_clean
    pkgs,             \* what the resolver returns for the request
    to_build_install, \* the dict source_name -> set of binary names
    workdir,          \* self.workdir: "none", "caller" or "temp"
    fs,               \* the entries that exist at the work directory's path
    pc,               \* where the main thread is
    error,            \* the exception the main thread is raising (<<>>: none)
    buildthreads,     \* the list of started threads, by source package
    joined,           \* how many threads of buildthreads have been joined
    wstate,           \* each BuildThread's position
    my_exception,     \* each BuildThread's _my_exception (<<>>: None)
    to_install,       \* matched artifacts not yet handed to package_install
    installed,        \* artifacts package_install accepted
    err_pkgs,         \* artifacts package_install rejected, in order
    m_fname, m_haystack, m_idx, m_result,   \* one call of _is_wanted_file
    c_template, c_pkg, c_out, c_idx,        \* one mock config being generated
    g_pkgs, g_idx, g_dict                   \* one run of the grouping loop

pipeVars ==
    <<opts, pkgs, to_build_install, workdir, fs, pc, error, buildthreads, joined,
      wstate, my_exception, to_install, installed, err_pkgs>>
matchVars == <<m_fname, m_haystack, m_idx, m_result>>
cfgVars == <<c_template, c_pkg, c_out, c_idx>>
groupVars == <<g_pkgs, g_idx, g_dict>>
pureVars == <<matchVars, cfgVars, groupVars>>
vars == <<pipeVars, pureVars>>

NoExc == <<>>
Terminal == {"DONE", "FAILED"}
Running == {"FETCH", "CONFIGURE", "BUILD"}

MatchIdle ==
    /\ m_fname = <<>> /\ m_haystack = <<>> /\ m_idx = 0 /\ m_result = "idle"
CfgIdle ==
    /\ c_template = <<>> /\ c_pkg = "" /\ c_out = <<>> /\ c_idx = 0
GroupIdle ==
    /\ g_pkgs = <<>> /\ g_idx = 0 /\ g_dict = EmptyDict
PipeIdle ==
    /\ opts = [workdir |-> FALSE, skip_build |-> FALSE, skip_clean |-> FALSE]
    /\ pkgs = <<>> /\ to_build_install = EmptyDict /\ workdir = "none"
    /\ fs = {} /\ pc = "idle" /\ error = NoExc /\ buildthreads = <<>>
    /\ joined = 0 /\ wstate = [s \in Sources |-> "unstarted"]
    /\ my_exception = [s \in Sources |-> NoExc]
    /\ to_install = {} /\ installed = {} /\ err_pkgs = <<>>

\* ------------------------------------------------------- the run pipeline
Init ==
    /\ opts \in [workdir : BOOLEAN, skip_build : BOOLEAN, skip_clean : BOOLEAN]
    /\ pkgs \in ResolverResults
    /\ to_build_install = EmptyDict
    /\ workdir = "none"
    /\ fs \in (IF opts.workdir THEN CallerDirs ELSE {{}})
    /\ pc = "resolve"
    /\ error = NoExc
    /\ buildthreads = <<>>
    /\ joined = 0
    /\ wstate = [s \in Sources |-> "unstarted"]
    /\ my_exception = [s \in Sources |-> NoExc]
    /\ to_install = {} /\ installed = {} /\ err_pkgs = <<>>
    /\ MatchIdle /\ CfgIdle /\ GroupIdle

\* raise exc out of _run: control passes to the except clause of run()
Raise(exc) == pc' = "except" /\ error' = exc

\* Mutant: _run without the "if not pkgs: raise" test.
Resolve_NoCheck ==
    /\ pc = "resolve"
    /\ pc' = "group"
    /\ UNCHANGED <<opts, pkgs, to_build_install, workdir, fs, error, buildthreads,
                   joined, wstate, my_exception, to_install, installed, err_pkgs>>
    /\ UNCHANGED pureVars

\* _run, lines 93-96
Resolve ==
    /\ pc = "resolve"
    /\ IF pkgs = <<>>
       THEN Raise(<<"Error", "no package matched">>)
       ELSE pc' = "group" /\ UNCHANGED error
    /\ UNCHANGED <<opts, pkgs, to_build_install, workdir, fs, buildthreads, joined,
                   wstate, my_exception, to_install, installed, err_pkgs>>
    /\ UNCHANGED pureVars

\* _run, lines 98-105
GroupCandidates ==
    /\ pc = "group"
    /\ to_build_install' = GroupLoop(pkgs, EmptyDict)
    /\ pc' = "workdir"
    /\ UNCHANGED <<opts, pkgs, workdir, fs, error, buildthreads, joined,
                   wstate, my_exception, to_install, installed, err_pkgs>>
    /\ UNCHANGED pureVars

\* _run, lines 107-112.  tempfile.TemporaryDirectory(...).name creates the
\* directory, and the TemporaryDirectory object, referenced by nothing once its
\* name is read, is finalized in the same statement, which removes the
\* directory again: the generated path names no directory when line 110 is done.
ChooseWorkdir ==
    /\ pc = "workdir"
    /\ IF opts.workdir
       THEN workdir' = "caller" /\ fs' = fs
       ELSE workdir' = "temp" /\ fs' = (fs \cup {RootDir}) \ {RootDir}
    /\ pc' = "build"
    /\ UNCHANGED <<opts, pkgs, to_build_install, error, buildthreads, joined,
                   wstate, my_exception, to_install, installed, err_pkgs>>
    /\ UNCHANGED pureVars

\* Mutant: _build without its "if self.opts.skip_build: return".
BuildEnter_IgnoresSkipBuild ==
    /\ pc = "build"
    /\ IF MockConfigDir \in fs
       THEN Raise(<<"FileExistsError", "_mockconfig">>) /\ UNCHANGED fs
       ELSE IF MockRootsDir \in fs
       THEN /\ Raise(<<"FileExistsError", "_mockroots">>)
            /\ fs' = fs \cup {RootDir, MockConfigDir}
       ELSE /\ fs' = fs \cup {RootDir, MockConfigDir, MockRootsDir}
            /\ pc' = "start"
            /\ UNCHANGED error
    /\ UNCHANGED <<opts, pkgs, to_build_install, workdir, buildthreads, joined,
                   wstate, my_exception, to_install, installed, err_pkgs>>
    /\ UNCHANGED pureVars

\* _build, lines 158-163: os.makedirs creates missing parents and raises when
\* the directory itself exists.
BuildEnter ==
    /\ pc = "build"
    /\ IF opts.skip_build
       THEN pc' = "find" /\ UNCHANGED <<fs, error>>
       ELSE IF MockConfigDir \in fs
       THEN Raise(<<"FileExistsError", "_mockconfig">>) /\ UNCHANGED fs
       ELSE IF MockRootsDir \in fs
       THEN /\ Raise(<<"FileExistsError", "_mockroots">>)
            /\ fs' = fs \cup {RootDir, MockConfigDir}
       ELSE /\ fs' = fs \cup {RootDir, MockConfigDir, MockRootsDir}
            /\ pc' = "start"
            /\ UNCHANGED error
    /\ UNCHANGED <<opts, pkgs, to_build_install, workdir, buildthreads, joined,
                   wstate, my_exception, to_install, installed, err_pkgs>>
    /\ UNCHANGED pureVars

\* Mutant: each thread is started only once the one before it has ended (the
\* join inside the start loop).
StartThread_AfterPrevious ==
    /\ pc = "start"
    /\ Len(buildthreads) < Len(to_build_install.keys)
    /\ \A i \in 1..Len(buildthreads) : wstate[buildthreads[i]] \in Terminal
    /\ LET pkg == to_build_install.keys[Len(buildthreads) + 1]
       IN  /\ buildthreads' = Append(buildthreads, pkg)
           /\ wstate' = [wstate EXCEPT ![pkg] = "FETCH"]
    /\ UNCHANGED <<opts, pkgs, to_build_install, workdir, fs, pc, error, joined,
                   my_exception, to_install, installed, err_pkgs>>
    /\ UNCHANGED pureVars

\* _build, lines 166-169: one iteration of the loop that starts the threads
StartThread ==
    /\ pc = "start"
    /\ Len(buildthreads) < Len(to_build_install.keys)
    /\ LET pkg == to_build_install.keys[Len(buildthreads) + 1]
       IN  /\ buildthreads' = Append(buildthreads, pkg)
           /\ wstate' = [wstate EXCEPT ![pkg] = "FETCH"]
    /\ UNCHANGED <<opts, pkgs, to_build_install, workdir, fs, pc, error, joined,
                   my_exception, to_install, installed, err_pkgs>>
    /\ UNCHANGED pureVars

\* _build, line 171: the start loop is over
AllStarted ==
    /\ pc = "start"
    /\ Len(buildthreads) = Len(to_build_install.keys)
    /\ pc' = "join"
    /\ UNCHANGED <<opts, pkgs, to_build_install, workdir, fs, error, buildthreads,
                   joined, wstate, my_exception, to_install, installed, err_pkgs>>
    /\ UNCHANGED pureVars

\* Mutant: join() is given a timeout and returns although the thread has not
\* ended.
JoinThread_TimesOut ==
    /\ pc = "join"
    /\ joined < Len(buildthreads)
    /\ LET bthread == buildthreads[joined + 1]
       IN  IF my_exception[bthread] # NoExc
           THEN Raise(my_exception[bthread]) /\ UNCHANGED joined
           ELSE joined' = joined + 1 /\ UNCHANGED <<pc, error>>
    /\ UNCHANGED <<opts, pkgs, to_build_install, workdir, fs, buildthreads,
                   wstate, my_exception, to_install, installed, err_pkgs>>
    /\ UNCHANGED pureVars

\* Mutant: the join loop without its "if bthread._my_exception: raise".
JoinThread_IgnoresException ==
    /\ pc = "join"
    /\ joined < Len(buildthreads)
    /\ wstate[buildthreads[joined + 1]] \in Terminal
    /\ joined' = joined + 1
    /\ UNCHANGED <<opts, pkgs, to_build_install, workdir, fs, pc, error, buildthreads,
                   wstate, my_exception, to_install, installed, err_pkgs>>
    /\ UNCHANGED pureVars

\* Mutant: the join loop raises the exception of whichever started thread has
\* failed, not of the thread it has just joined.
JoinThread_RaisesAnyFailed ==
    /\ pc = "join"
    /\ joined < Len(buildthreads)
    /\ LET bthread == buildthreads[joined + 1]
       IN  /\ wstate[bthread] \in Terminal
           /\ IF \E i \in 1..Len(buildthreads) : my_exception[buildthreads[i]] # NoExc
              THEN /\ \E i \in 1..Len(buildthreads) :
                        /\ my_exception[buildthreads[i]] # NoExc
                        /\ Raise(my_exception[buildthreads[i]])
                   /\ UNCHANGED joined
              ELSE joined' = joined + 1 /\ UNCHANGED <<pc, error>>
    /\ UNCHANGED <<opts, pkgs, to_build_install, workdir, fs, buildthreads,
                   wstate, my_exception, to_install, installed, err_pkgs>>
    /\ UNCHANGED pureVars

\* _build, lines 173-176: one iteration of the join loop.  join() returns when
\* the thread has ended; its exception, if any, is raised at once.
JoinThread ==
    /\ pc = "join"
    /\ joined < Len(buildthreads)
    /\ LET bthread == buildthreads[joined + 1]
       IN  /\ wstate[bthread] \in Terminal
           /\ IF my_exception[bthread] # NoExc
              THEN Raise(my_exception[bthread]) /\ UNCHANGED joined
              ELSE joined' = joined + 1 /\ UNCHANGED <<pc, error>>
    /\ UNCHANGED <<opts, pkgs, to_build_install, workdir, fs, buildthreads,
                   wstate, my_exception, to_install, installed, err_pkgs>>
    /\ UNCHANGED pureVars

\* _build, line 178: the join loop is over, _build returns
AllJoined ==
    /\ pc = "join"
    /\ joined = Len(buildthreads)
    /\ pc' = "find"
    /\ UNCHANGED <<opts, pkgs, to_build_install, workdir, fs, error, buildthreads,
                   joined, wstate, my_exception, to_install, installed, err_pkgs>>
    /\ UNCHANGED pureVars


\* ------------------------------------------------------------ BuildThread
\* Mutant: the exception is stored in the class attribute
\* ErrorThread._my_exception, which every thread reads.
Fail_ClassAttribute(s, exc) ==
    /\ wstate' = [wstate EXCEPT ![s] = "FAILED"]
    /\ my_exception' = [t \in Sources |-> exc]

\* ErrorThread.run, lines 17-21: whatever _run raises is stored in the thread's
\* own _my_exception and the thread ends.
Fail(s, exc) ==
    /\ wstate' = [wstate EXCEPT ![s] = "FAILED"]
    /\ my_exception' = [my_exception EXCEPT ![s] = exc]

\* BuildThread._run, lines 34-39: fedpkg clone succeeds.  The clone creates the
\* package directory and the directories leading to it; it cannot succeed into
\* a directory that already holds a checkout.
FetchOk(s) ==
    /\ wstate[s] = "FETCH"
    /\ PkgDir(s) \notin fs
    /\ fs' = fs \cup {RootDir, PkgDir(s)}
    /\ wstate' = [wstate EXCEPT ![s] = "CONFIGURE"]
    /\ UNCHANGED <<opts, pkgs, to_build_install, workdir, pc, error, buildthreads,
                   joined, my_exception, to_install, installed, err_pkgs>>
    /\ UNCHANGED pureVars

\* Mutant: the clone is run without check=True, so its failure goes unnoticed
\* and the thread goes on to generate the config.
FetchFail_Unchecked(s) ==
    /\ wstate[s] = "FETCH"
    /\ wstate' = [wstate EXCEPT ![s] = "CONFIGURE"]
    /\ UNCHANGED <<opts, pkgs, to_build_install, workdir, fs, pc, error, buildthreads,
                   joined, my_exception, to_install, installed, err_pkgs>>
    /\ UNCHANGED pureVars

\* BuildThread._run, lines 38-39: fedpkg clone exits non-zero (check=True)
FetchFail(s) ==
    /\ wstate[s] = "FETCH"
    /\ Fail(s, <<"CalledProcessError", "clone", s>>)
    /\ UNCHANGED <<opts, pkgs, to_build_install, workdir, fs, pc, error, buildthreads,
                   joined, to_install, installed, err_pkgs>>
    /\ UNCHANGED pureVars

\* BuildThread._run, lines 43-51: the mock config is written.  open(..., 'w')
\* needs the _mockconfig directory.
ConfigureOk(s) ==
    /\ wstate[s] = "CONFIGURE"
    /\ MockConfigDir \in fs
    /\ fs' = fs \cup {MockConfig(s)}
    /\ wstate' = [wstate EXCEPT ![s] = "BUILD"]
    /\ UNCHANGED <<opts, pkgs, to_build_install, workdir, pc, error, buildthreads,
                   joined, my_exception, to_install, installed, err_pkgs>>
    /\ UNCHANGED pureVars

\* BuildThread._run, lines 44-45: the template cannot be read, or the config
\* cannot be created
ConfigureFail(s) ==
    /\ wstate[s] = "CONFIGURE"
    /\ IF MockConfigDir \in fs
       THEN Fail(s, <<"OSError", "template", s>>)
       ELSE Fail(s, <<"FileNotFoundError", "mock_config", s>>)
    /\ UNCHANGED <<opts, pkgs, to_build_install, workdir, fs, pc, error, buildthreads,
                   joined, to_install, installed, err_pkgs>>
    /\ UNCHANGED pureVars

\* BuildThread._run, line 55: fedpkg mockbuild succeeds, run in the package
\* directory with the generated config, and leaves its results there
BuildOk(s) ==
    /\ wstate[s] = "BUILD"
    /\ PkgDir(s) \in fs /\ MockConfig(s) \in fs
    /\ fs' = fs \cup BuiltFiles(s)
    /\ wstate' = [wstate EXCEPT ![s] = "DONE"]
    /\ UNCHANGED <<opts, pkgs, to_build_install, workdir, pc, error, buildthreads,
                   joined, my_exception, to_install, installed, err_pkgs>>
    /\ UNCHANGED pureVars

\* BuildThread._run, line 55: fedpkg mockbuild exits non-zero, or cannot be
\* started in a package directory that is gone
BuildFail(s) ==
    /\ wstate[s] = "BUILD"
    /\ IF PkgDir(s) \in fs
       THEN Fail(s, <<"CalledProcessError", "mockbuild", s>>)
       ELSE Fail(s, <<"FileNotFoundError", "cwd", s>>)
    /\ UNCHANGED <<opts, pkgs, to_build_install, workdir, fs, pc, error, buildthreads,
                   joined, to_install, installed, err_pkgs>>
    /\ UNCHANGED pureVars

\* ------------------------------------------------- matching and installing
\* The requested binary names of one source, iterated in the order a global
\* order of all requested names induces on them.
Haystack(order, binaries) == SelectSeq(order, LAMBDA n : n \in binaries)

\* _find_packages, lines 145-155, with each set of binaries iterated in the
\* order given: the matched paths, and whether some call of _is_wanted_file
\* raised.
FoundWith(f, d, order) ==
    LET verdict(e) == IsWantedFile(e[3], Haystack(order, DictGet(d, e[2])))
        globbed == UNION {Glob(f, s) : s \in DictKeys(d)}
    IN  [to_install |-> {e \in globbed : verdict(e) = "True"},
         raised |-> \E e \in globbed : verdict(e) = "IndexError"]

\* _run, line 115
FindPackages ==
    /\ pc = "find"
    /\ \E order \in Orderings({pkgs[i].name : i \in 1..Len(pkgs)}) :
         LET found == FoundWith(fs, to_build_install, order)
         IN  IF found.raised
             THEN Raise(<<"IndexError", "rest[0][0]">>) /\ UNCHANGED to_install
             ELSE /\ to_install' = found.to_install
                  /\ pc' = "install"
                  /\ UNCHANGED error
    /\ UNCHANGED <<opts, pkgs, to_build_install, workdir, fs, buildthreads, joined,
                   wstate, my_exception, installed, err_pkgs>>
    /\ UNCHANGED pureVars

\* _run, lines 118-120: package_install accepts the next artifact
InstallAccept ==
    /\ pc = "install"
    /\ \E pkg \in to_install :
         /\ to_install' = to_install \ {pkg}
         /\ installed' = installed \cup {pkg}
    /\ UNCHANGED <<opts, pkgs, to_build_install, workdir, fs, pc, error, buildthreads,
                   joined, wstate, my_exception, err_pkgs>>
    /\ UNCHANGED pureVars

\* _run, lines 118-123: package_install raises MarkingError for the next
\* artifact, which is appended to err_pkgs
InstallReject ==
    /\ pc = "install"
    /\ \E pkg \in to_install :
         /\ to_install' = to_install \ {pkg}
         /\ err_pkgs' = Append(err_pkgs, pkg)
    /\ UNCHANGED <<opts, pkgs, to_build_install, workdir, fs, pc, error, buildthreads,
                   joined, wstate, my_exception, installed>>
    /\ UNCHANGED pureVars

\* _run, lines 125-127.  The name strict is bound nowhere: when err_pkgs is not
\* empty the condition's second operand is evaluated and raises NameError; when
\* it is empty, "and" does not evaluate it and _run returns.
StrictCheck ==
    /\ pc = "install"
    /\ to_install = {}
    /\ IF Len(err_pkgs) # 0
       THEN Raise(<<"NameError", "strict">>)
       ELSE pc' = "returned" /\ UNCHANGED error
    /\ UNCHANGED <<opts, pkgs, to_build_install, workdir, fs, buildthreads, joined,
                   wstate, my_exception, to_install, installed, err_pkgs>>
    /\ UNCHANGED pureVars

\* ----------------------------------------------------------------- cleanup
\* Mutant: _rmworkdir without its "not self.opts.workdir" test.
RmWorkdirGuard_IgnoresWorkdirOpt ==
    workdir # "none" /\ ~opts.skip_clean

\* The condition of _rmworkdir, line 82
RmWorkdirGuard ==
    workdir # "none" /\ ~opts.workdir /\ ~opts.skip_clean

\* _rmworkdir, lines 81-83: what is left of the work directory, and what
\* shutil.rmtree raised (it raises when the directory does not exist)
RmWorkdir(f) ==
    IF RmWorkdirGuard
    THEN IF RootDir \in f
         THEN [fs |-> {}, exc |-> NoExc]
         ELSE [fs |-> f, exc |-> <<"FileNotFoundError", "rmtree">>]
    ELSE [fs |-> f, exc |-> NoExc]

\* run, lines 88-90: _run raised; clean up and re-raise.  An exception raised
\* by the cleanup itself replaces the one being handled.
RunExcept ==
    /\ pc = "except"
    /\ LET r == RmWorkdir(fs)
       IN  /\ fs' = r.fs
           /\ error' = IF r.exc # NoExc THEN r.exc ELSE error
    /\ pc' = "failed"
    /\ UNCHANGED <<opts, pkgs, to_build_install, workdir, buildthreads, joined,
                   wstate, my_exception, to_install, installed, err_pkgs>>
    /\ UNCHANGED pureVars

\* run_transaction, lines 78-79: called once run() has returned and the
\* transaction is through
RunTransaction ==
    /\ pc = "returned"
    /\ LET r == RmWorkdir(fs)
       IN  /\ fs' = r.fs
           /\ error' = r.exc
           /\ pc' = IF r.exc # NoExc THEN "failed" ELSE "done"
    /\ UNCHANGED <<opts, pkgs, to_build_install, workdir, buildthreads, joined,
                   wstate, my_exception, to_install, installed, err_pkgs>>
    /\ UNCHANGED pureVars

Next ==
    \/ Resolve
    \/ GroupCandidates
    \/ ChooseWorkdir
    \/ BuildEnter
    \/ StartThread
    \/ AllStarted
    \/ JoinThread
    \/ AllJoined
    \/ \E s \in Sources : FetchOk(s)
    \/ \E s \in Sources : FetchFail(s)
    \/ \E s \in Sources : ConfigureOk(s)
    \/ \E s \in Sources : ConfigureFail(s)
    \/ \E s \in Sources : BuildOk(s)
    \/ \E s \in Sources : BuildFail(s)
    \/ FindPackages
    \/ InstallAccept
    \/ InstallReject
    \/ StrictCheck
    \/ RunExcept
    \/ RunTransaction

Spec == Init /\ [][Next]_vars


\* ------------------------------------------------------------------ claims
Started == {buildthreads[i] : i \in 1..Len(buildthreads)}
Failed == {s \in Sources : wstate[s] = "FAILED"}

\* _build is raising the exception of a thread it has joined.
WorkerErrorSurfaced ==
    /\ pc = "except"
    /\ \E s \in Started : my_exception[s] # NoExc /\ error = my_exception[s]

\* C1: when exactly one worker has failed and _build surfaces its failure,
\* every started worker is DONE or FAILED at that moment.
C1_AllTerminalWhenSurfaced ==
    (WorkerErrorSurfaced /\ Cardinality(Failed) = 1)
        => \A s \in Started : wstate[s] \in Terminal

\* C2: the step that deletes the work directory is never taken while a worker
\* is in FETCH, CONFIGURE or BUILD.
C2_NoDeletionWhileRunning ==
    [][(RootDir \in fs /\ RootDir \notin fs') => \A s \in Sources : wstate[s] \notin Running]_vars

\* C3: without --workdir and --skip-clean, once the run has completed and every
\* worker has terminated, nothing exists at the generated work directory's path.
C3_TempDirGoneAfterRun ==
    (/\ ~opts.workdir /\ ~opts.skip_clean
     /\ pc \in {"done", "failed"}
     /\ \A s \in Sources : wstate[s] \notin Running)
        => fs = {}

C5_NoMatchDoesNothing ==
    /\ [](pkgs = <<>> =>
            /\ pc \in {"resolve", "except", "failed"}
            /\ pc # "resolve" => error = <<"Error", "no package matched">>
            /\ workdir = "none"
            /\ buildthreads = <<>>
            /\ \A s \in Sources : wstate[s] = "unstarted"
            /\ to_install = {} /\ installed = {} /\ err_pkgs = <<>>)
    /\ [][pkgs = <<>> => fs' = fs]_vars

\* C5 witness: the no-match run has ended, cleanup included, over a reused
\* caller-supplied directory.
C5_Witness ==
    pkgs = <<>> /\ pc = "failed" /\ opts.workdir /\ fs = PreviousRun

\* C6: when package_install has accepted some artifacts and rejected others,
\* the run fails with PackagesNotAvailableError carrying the rejected ones.
C6_RejectsRaisePackagesNotAvailable ==
    (pc = "except" /\ to_install = {} /\ installed # {} /\ err_pkgs # <<>>)
        => error = <<"PackagesNotAvailableError", err_pkgs>>

\* Every source package has its thread and every thread is DONE.
AllBuildsSucceeded ==
    /\ ~opts.skip_build
    /\ to_build_install.keys # <<>>
    /\ Started = DictKeys(to_build_install)
    /\ \A s \in Started : wstate[s] = "DONE"

\* C7: when every worker succeeds, _build raises nothing, and when it returns
\* the config _mockconfig/emerge-<source>.cfg of every source package exists.
C7_AllSucceedConfigsPresent ==
    /\ []((pc = "find" /\ AllBuildsSucceeded) =>
            /\ error = NoExc
            /\ \A s \in DictKeys(to_build_install) : <<"cfg", s>> \in fs)
    /\ [][(pc = "join" /\ AllBuildsSucceeded) => pc' \in {"join", "find"}]_vars

\* C7 witness: _build has returned from two successful builds.
C7_Witness ==
    pc = "find" /\ AllBuildsSucceeded /\ Len(buildthreads) = 2


\* --------------------------------------- _is_wanted_file on its own inputs
\* Longest file-name stem, longest requested name, largest haystack tried.
MaxStem == 4
MaxNeedle == 2
MaxHaystack == 2

MatchAlphabet == {"a", Dash, "1"}
Strings(alphabet, lo, hi) == UNION {[1..n -> alphabet] : n \in lo..hi}
MatchFiles ==
    {stem \o ext : stem \in Strings(MatchAlphabet, 0, MaxStem),
                   ext \in {<<>>, DotRpm, DotSrcRpm}}
\* Requested names: package names begin with a letter or a digit.
MatchNeedles == {n \in Strings(MatchAlphabet, 1, MaxNeedle) : n[1] # Dash}
\* A set of requested names in each order it can be iterated in.
MatchHaystacks ==
    UNION {{q \in [1..n -> MatchNeedles] : \A i, j \in 1..n : q[i] = q[j] => i = j}
             : n \in 0..MaxHaystack}

MatchInit ==
    /\ m_fname \in MatchFiles
    /\ m_haystack \in MatchHaystacks
    /\ m_idx = 0
    /\ m_result = "running"
    /\ PipeIdle /\ CfgIdle /\ GroupIdle

MatchFrame == UNCHANGED <<pipeVars, cfgVars, groupVars, m_fname, m_haystack>>

\* _is_wanted_file, lines 131-140: the needle at hand takes a "continue"
MatchContinue ==
    /\ m_result = "running"
    /\ m_idx < Len(m_haystack)
    /\ NeedleOutcome(m_fname, m_haystack[m_idx + 1]) = "continue"
    /\ m_idx' = m_idx + 1
    /\ UNCHANGED m_result
    /\ MatchFrame

\* _is_wanted_file, line 141
MatchReturnTrue ==
    /\ m_result = "running"
    /\ m_idx < Len(m_haystack)
    /\ NeedleOutcome(m_fname, m_haystack[m_idx + 1]) = "True"
    /\ m_result' = "True"
    /\ UNCHANGED m_idx
    /\ MatchFrame

\* _is_wanted_file, line 139: rest[0][0] on an empty first segment
MatchRaise ==
    /\ m_result = "running"
    /\ m_idx < Len(m_haystack)
    /\ NeedleOutcome(m_fname, m_haystack[m_idx + 1]) = "IndexError"
    /\ m_result' = "IndexError"
    /\ UNCHANGED m_idx
    /\ MatchFrame

\* _is_wanted_file, line 142
MatchReturnFalse ==
    /\ m_result = "running"
    /\ m_idx = Len(m_haystack)
    /\ m_result' = "False"
    /\ UNCHANGED m_idx
    /\ MatchFrame

MatchNext ==
    \/ MatchContinue
    \/ MatchReturnTrue
    \/ MatchRaise
    \/ MatchReturnFalse

SpecMatch == MatchInit /\ [][MatchNext]_vars

\* The acceptance rule as the claim words it, for file name f and the set R of
\* requested names.
RuleAccepts(f, R) ==
    /\ ~EndsWith(f, DotSrcRpm)
    /\ \E n \in R :
         /\ StartsWith(f, n \o <<Dash>>)
         /\ LET segments == Split(SubSeq(f, Len(n) + 2, Len(f)), Dash)
            IN  /\ Len(segments) <= 2
                /\ segments[1] # <<>>
                /\ segments[1][1] \in Digits

\* C8: the matcher accepts a file name exactly when the rule accepts it.
C8_AcceptsIffRule ==
    m_result \in {"True", "False", "IndexError"}
        => (m_result = "True"
              <=> RuleAccepts(m_fname, {m_haystack[i] : i \in 1..Len(m_haystack)}))


\* ------------------------------------------ generating one mock config file
\* A line of text is the sequence of its pieces; the pieces are chosen so that
\* the text config_opts['root'] occurs in a line exactly where RootKey is one
\* of its pieces.
MaxLine == 2
MaxTemplate == 3

RootKey == "config_opts['root']"
OtherText == " = 'fedora-rawhide-x86_64'"
CfgLines == Strings({RootKey, OtherText}, 1, MaxLine)
Templates == UNION {[1..n -> CfgLines] : n \in 0..MaxTemplate}

\* line 46
BasedirLine == <<"config_opts['basedir']", " = '", "workdir/_mockroots", "'">>
\* line 49
RootLine(pkg) == <<RootKey, " = 'emerge-", pkg, "'">>

\* line 48: "config_opts['root']" in line
LineHasRoot(line) == \E k \in 1..Len(line) : line[k] = RootKey

\* Mutant: the test asks whether the line starts with config_opts['root'].
WrittenFor_StartsWith(line, pkg) ==
    IF line[1] = RootKey THEN RootLine(pkg) ELSE line

\* lines 48-51: what is written to the config for one line of the template
WrittenFor(line, pkg) ==
    IF LineHasRoot(line) THEN RootLine(pkg) ELSE line

CfgInit ==
    /\ c_template \in Templates
    /\ c_pkg \in Sources
    /\ c_out = <<>>
    /\ c_idx = 0
    /\ PipeIdle /\ MatchIdle /\ GroupIdle

CfgFrame == UNCHANGED <<pipeVars, matchVars, groupVars, c_template, c_pkg>>

\* BuildThread._run, lines 44-46: both files are opened and the basedir line
\* is written first
WriteBasedir ==
    /\ c_idx = 0
    /\ c_out' = <<BasedirLine>>
    /\ c_idx' = 1
    /\ CfgFrame

\* BuildThread._run, lines 47-51: one iteration of the loop over the template
WriteLine ==
    /\ c_idx \in 1..Len(c_template)
    /\ c_out' = Append(c_out, WrittenFor(c_template[c_idx], c_pkg))
    /\ c_idx' = c_idx + 1
    /\ CfgFrame

CfgNext ==
    \/ WriteBasedir
    \/ WriteLine

SpecConfig == CfgInit /\ [][CfgNext]_vars

CfgDone == c_idx = Len(c_template) + 1

\* The template lines that hold the root-binding pattern.
RootLines == {i \in 1..Len(c_template) : \E k \in 1..Len(c_template[i]) : c_template[i][k] = RootKey}
\* The template lines whose counterpart in the output differs from them.
ReplacedLines == {i \in 1..Len(c_template) : c_out[i + 1] # c_template[i]}

\* The lines of the template without the pattern are, in order, the lines of
\* the output after its first that are no root binding.
OtherLinesKept ==
    SelectSeq(c_template, LAMBDA l : \A k \in 1..Len(l) : l[k] # RootKey)
        = SelectSeq(Tail(c_out), LAMBDA l : l # RootLine(c_pkg))

\* C9 as stated: the lines without the pattern are copied in order and exactly
\* one line of the template is replaced.
C9_ExactlyOneReplaced ==
    CfgDone => (OtherLinesKept /\ Cardinality(ReplacedLines) = 1)

\* C9 as amended: after the basedir line the output has one line per template
\* line, in order: the root binding for each line that holds the pattern
\* (none, one or several), the line itself for every other.
C9_EachRootLineReplaced ==
    CfgDone =>
        /\ Len(c_out) = Len(c_template) + 1
        /\ c_out[1] = BasedirLine
        /\ \A i \in 1..Len(c_template) :
             c_out[i + 1] = IF i \in RootLines THEN <<RootKey, " = 'emerge-", c_pkg, "'">>
                            ELSE c_template[i]
        /\ OtherLinesKept
        /\ ReplacedLines = RootLines

\* C9 witness: a config generated from a template with two root-binding lines,
\* one of them with the pattern not at its start, and another line.
C9_Witness ==
    /\ CfgDone
    /\ Cardinality(RootLines) = 2
    /\ Len(c_template) = 3
    /\ \E i \in RootLines : c_template[i][1] # RootKey

\* ------------------------------------------- the grouping loop on its own
MaxCands == 3

GroupNames == {<<"a">>, <<"a", Dash, "x">>}
GroupCands == [name : GroupNames, source_name : Sources]

GroupInit ==
    /\ g_pkgs \in UNION {[1..n -> GroupCands] : n \in 0..MaxCands}
    /\ g_idx = 0
    /\ g_dict = EmptyDict
    /\ PipeIdle /\ MatchIdle /\ CfgIdle

\* _run, lines 99-103: one iteration of the loop over pkgs
GroupIter ==
    /\ g_idx < Len(g_pkgs)
    /\ g_dict' = GroupStep(g_dict, g_pkgs[g_idx + 1])
    /\ g_idx' = g_idx + 1
    /\ UNCHANGED <<pipeVars, matchVars, cfgVars, g_pkgs>>

GroupNext == GroupIter

SpecGroup == GroupInit /\ [][GroupNext]_vars

GroupDone == g_idx = Len(g_pkgs)

\* Every list with the same candidates as ps: its reorderings, with each
\* candidate repeated or not.
Rearrangements(ps) ==
    {q \in UNION {[1..n -> {ps[i] : i \in 1..Len(ps)}] : n \in 0..Len(ps)} :
        {q[i] : i \in 1..Len(q)} = {ps[i] : i \in 1..Len(ps)}}

OrderIndependent ==
    \A q \in Rearrangements(g_pkgs) : DictMap(GroupLoop(q, EmptyDict)) = DictMap(g_dict)

NoEmptyKey ==
    /\ \A i \in 1..Len(g_dict.keys) : g_dict.sets[i] # {}
    /\ \A i, j \in 1..Len(g_dict.keys) : g_dict.keys[i] = g_dict.keys[j] => i = j

\* C10 as stated: the group map does not depend on the order or repetition of
\* the candidates, each candidate's name is under its own source and under no
\* other key, and no key has an empty set.
C10_NameUnderOwnKeyOnly ==
    GroupDone =>
        /\ OrderIndependent
        /\ NoEmptyKey
        /\ \A i \in 1..Len(g_pkgs) :
             /\ g_pkgs[i].source_name \in DictKeys(g_dict)
             /\ g_pkgs[i].name \in DictGet(g_dict, g_pkgs[i].source_name)
             /\ \A k \in DictKeys(g_dict) \ {g_pkgs[i].source_name} :
                  g_pkgs[i].name \notin DictGet(g_dict, k)

\* C10 as amended: the same, except that a name is under exactly the keys that
\* are the source_name of some candidate with that name.
C10_GroupIsNamesBySource ==
    GroupDone =>
        /\ OrderIndependent
        /\ NoEmptyKey
        /\ DictKeys(g_dict) = {g_pkgs[i].source_name : i \in 1..Len(g_pkgs)}
        /\ \A k \in DictKeys(g_dict) :
             DictGet(g_dict, k) = {g_pkgs[i].name : i \in {j \in 1..Len(g_pkgs) : g_pkgs[j].source_name = k}}

\* C10 witness: three candidates grouped, two of one source, two of one name
\* from different sources.
C10_Witness ==
    /\ GroupDone
    /\ Len(g_pkgs) = 3
    /\ \E i, j \in 1..3 : i # j /\ g_pkgs[i].source_name = g_pkgs[j].source_name
                          /\ g_pkgs[i].name # g_pkgs[j].name
    /\ \E i, j \in 1..3 : g_pkgs[i].name = g_pkgs[j].name
                          /\ g_pkgs[i].source_name # g_pkgs[j].source_name

\* ------------------------------------------- claims on the run pipeline, II
\* C11: with --skip-build no thread is ever started and no step of a build is
\* performed (nothing is created in the work directory); _build goes straight
\* on to the matching, which works on what the work directory holds, and the
\* installation follows.
C11_SkipBuildStartsNothing ==
    /\ [](opts.skip_build =>
            /\ buildthreads = <<>>
            /\ \A s \in Sources : wstate[s] = "unstarted" /\ my_exception[s] = NoExc
            /\ pc \notin {"start", "join"})
    /\ [][opts.skip_build => fs' \subseteq fs]_vars
    /\ [][(opts.skip_build /\ pc = "build") => pc' = "find"]_vars
    /\ [][(opts.skip_build /\ pc = "find" /\ pc' = "install") =>
            \E order \in Orderings({pkgs[i].name : i \in 1..Len(pkgs)}) :
                to_install' = FoundWith(fs, to_build_install, order).to_install]_vars
    /\ [][(opts.skip_build /\ pc = "install") => pc' \in {"install", "returned", "except"}]_vars

\* C11 witness: a --skip-build run has installed an artifact an earlier run
\* left in the work directory, and is over.
C11_Witness ==
    opts.skip_build /\ pc = "done" /\ installed # {}

\* The exceptions captured in threads name the step and the thread they come
\* from; the main thread's own exceptions do not.
IsWorkerError(e) == Len(e) = 3

\* C12: when the run ends in a worker's failure, the error raised is the very
\* exception captured by the first thread, in start order, that failed: every
\* thread started before it is DONE without an exception.  And when a worker
\* has failed, the run ends in no other kind of error.
C12_FirstFailedSurfaced ==
    pc \in {"except", "failed"} =>
        /\ (\E s \in Sources : wstate[s] = "FAILED") => IsWorkerError(error)
        /\ IsWorkerError(error) =>
             \E i \in 1..Len(buildthreads) :
                /\ error = my_exception[buildthreads[i]]
                /\ error[3] = buildthreads[i]
                /\ \A j \in 1..(i - 1) :
                     /\ wstate[buildthreads[j]] = "DONE"
                     /\ my_exception[buildthreads[j]] = NoExc

\* C12 witness: two threads have failed and the first one's exception is
\* being raised.
C12_Witness ==
    /\ pc = "except"
    /\ Len(buildthreads) = 2
    /\ \A i \in 1..2 : wstate[buildthreads[i]] = "FAILED"
    /\ error = my_exception[buildthreads[1]]

\* The moves a BuildThread can make.
WorkerMoves ==
    {<<"unstarted", "FETCH">>,
     <<"FETCH", "CONFIGURE">>, <<"FETCH", "FAILED">>,
     <<"CONFIGURE", "BUILD">>, <<"CONFIGURE", "FAILED">>,
     <<"BUILD", "DONE">>, <<"BUILD", "FAILED">>}

\* What the steps a thread has behind it have left on disk, and what the steps
\* it never took have not.
StepsLeftTheirMark(s) ==
    /\ wstate[s] \in {"CONFIGURE", "BUILD", "DONE"} => PkgDir(s) \in fs
    /\ wstate[s] \in {"BUILD", "DONE"} => MockConfig(s) \in fs
    /\ wstate[s] = "DONE" => BuiltFiles(s) \subseteq fs
    /\ wstate[s] \in {"FETCH", "CONFIGURE"} => MockConfig(s) \notin fs
    /\ wstate[s] \in {"FETCH", "CONFIGURE", "BUILD"} => BuiltFiles(s) \cap fs = {}
    /\ wstate[s] = "FAILED" =>
         /\ BuiltFiles(s) \cap fs = {}
         /\ my_exception[s][2] = "clone" => PkgDir(s) \notin fs /\ MockConfig(s) \notin fs
         /\ my_exception[s][2] \in {"template", "mock_config"} =>
              PkgDir(s) \in fs /\ MockConfig(s) \notin fs
         /\ my_exception[s][2] \in {"mockbuild", "cwd"} => MockConfig(s) \in fs

\* C13: a thread only ever moves FETCH -> CONFIGURE -> BUILD -> DONE, or from
\* one of the three steps to FAILED, and never leaves DONE or FAILED; while the
\* work directory has not been cleaned up, each step it has passed has left its
\* product and no step after a failed one has run.
C13_StrictlySequentialWorker ==
    /\ [][\A s \in Sources :
            wstate'[s] # wstate[s] => <<wstate[s], wstate'[s]>> \in WorkerMoves]_vars
    /\ [](pc \notin {"failed", "done"} => \A s \in Sources : StepsLeftTheirMark(s))

\* C13 witness: a thread failed generating its config, after a fetch that
\* succeeded, and no config of its exists.
C13_Witness ==
    /\ pc \notin {"failed", "done"}
    /\ \E s \in Sources :
         /\ wstate[s] = "FAILED"
         /\ my_exception[s][2] = "template"
         /\ PkgDir(s) \in fs /\ MockConfig(s) \notin fs

\* C14: a thread's failure goes to its own _my_exception and nowhere else: the
\* step that fails a thread leaves the main thread and the other threads'
\* slots as they are, a slot once filled keeps its exception, a slot holds an
\* exception exactly when its thread has failed, and that exception is its
\* thread's own.
C14_FailureCapturedInOwnSlot ==
    /\ [](\A s \in Sources :
            /\ my_exception[s] # NoExc <=> wstate[s] = "FAILED"
            /\ my_exception[s] # NoExc => my_exception[s][3] = s)
    /\ [][\A s \in Sources :
            (wstate[s] # "FAILED" /\ wstate'[s] = "FAILED") =>
                /\ pc' = pc /\ error' = error
                /\ \A t \in Sources \ {s} : my_exception'[t] = my_exception[t]]_vars
    /\ [][\A s \in Sources :
            my_exception[s] # NoExc => my_exception'[s] = my_exception[s]]_vars

\* C14 witness: one thread has failed and holds its own exception, another is
\* DONE with an empty slot.
C14_Witness ==
    \E s, t \in Sources :
        /\ wstate[s] = "FAILED" /\ my_exception[s][3] = s
        /\ wstate[t] = "DONE" /\ my_exception[t] = NoExc

C16_RejectionsNeverFatal ==
    (err_pkgs # <<>> /\ to_install = {} /\ pc # "install")
        => (pc \in {"returned", "done"} /\ error = NoExc)

\* The matcher is being invoked, or has been.
MatchingBegun == pc \in {"find", "install", "returned", "done"}

\* C17: when building is not skipped, the matcher is invoked, and artifacts
\* reach the installer, only with a thread for every key and every thread
\* DONE; once a thread has failed the matcher is never invoked and the
\* installer is handed nothing.
C17_MatchOnlyAfterAllDone ==
    /\ (~opts.skip_build /\ (MatchingBegun \/ to_install # {} \/ installed # {}
                                \/ err_pkgs # <<>>)) =>
         /\ Started = DictKeys(to_build_install)
         /\ \A s \in Started : wstate[s] = "DONE"
    /\ (\E s \in Sources : wstate[s] = "FAILED") =>
         /\ ~MatchingBegun
         /\ to_install = {} /\ installed = {} /\ err_pkgs = <<>>
         /\ pc \in {"except", "failed"} => IsWorkerError(error)

\* C17 witness: after two builds, matched artifacts are about to be handed to
\* the installer.
C17_Witness ==
    /\ ~opts.skip_build
    /\ pc = "install"
    /\ Len(buildthreads) = 2
    /\ to_install # {}

\* C18: on a caller-supplied work directory, without --skip-build, the step of
\* _build that ensures _mockconfig and _mockroots exist raises nothing,
\* whether or not they exist already, and the threads get started.
C18_EnsureDirsNeverRaises ==
    (opts.workdir /\ ~opts.skip_build /\ pc \in {"except", "failed"})
        => (error = NoExc \/ error[1] # "FileExistsError")

\* C19: _is_wanted_file returns True or False for every file name and every
\* set of requested names; it never raises.
C19_MatcherTotal ==
    m_result # "running" => m_result \in {"True", "False"}

\* ------------------------------------------------- the run under fairness
\* The steps of the main thread, and of the thread of one source package.
MainStep ==
    \/ Resolve \/ GroupCandidates \/ ChooseWorkdir \/ BuildEnter
    \/ StartThread \/ AllStarted \/ JoinThread \/ AllJoined
    \/ FindPackages \/ InstallAccept \/ InstallReject \/ StrictCheck
    \/ RunExcept \/ RunTransaction

WorkerStep(s) ==
    \/ FetchOk(s) \/ FetchFail(s)
    \/ ConfigureOk(s) \/ ConfigureFail(s)
    \/ BuildOk(s) \/ BuildFail(s)

\* Threads are scheduled fairly, and every external invocation a thread is
\* blocked in returns in the end, one way or the other.
FairSpec ==
    /\ Init /\ [][Next]_vars
    /\ WF_vars(MainStep)
    /\ \A s \in Sources : WF_vars(WorkerStep(s))

\* C20: every started thread reaches DONE or FAILED, and the orchestrator,
\* once in its loops, leaves them by returning or raising; and while the
\* thread it is joining has not ended it stays where it is.  A thread never
\* runs again once it has ended and the loops are entered once, so "reaches"
\* is "from some point on is no longer running / no longer in the loops".
C20_JoinTerminatesAndNeverTimesOut ==
    /\ <>[](\A s \in Sources : wstate[s] \notin Running)
    /\ <>[](pc \notin {"start", "join"})
    /\ [][(/\ pc = "join"
           /\ joined < Len(buildthreads)
           /\ wstate[buildthreads[IF joined < Len(buildthreads) THEN joined + 1 ELSE 1]]
                 \notin Terminal)
            => (pc' = "join" /\ joined' = joined)]_vars

\* C20 witness: the orchestrator has joined its first thread and is blocked in
\* the join of the second, which is still running.
C20_Witness ==
    /\ pc = "join"
    /\ joined = 1
    /\ Len(buildthreads) = 2
    /\ wstate[buildthreads[2]] \in Running

====
